---------------------------- MODULE Spec2Model ----------------------------
(***************************************************************************)
(* Model of the RMC sentence decoder of nmea0183_parser                    *)
(* (src/nmea_content/sentences/rmc.rs).                                    *)
(*                                                                         *)
(* Text is a sequence of one-character strings.  A parser maps an input    *)
(* to a result [ok, rest, val]: on success rest is the unconsumed input    *)
(* and val the value; on failure rest is the input at the point of         *)
(* failure (nom's error input) and val is <<>>.  Option values are         *)
(* sequences: None is <<>>, Some(v) is <<v>>.  A decimal number is the     *)
(* pair <<m, e>> standing for m * 10^e, m without trailing zeros.          *)
(***************************************************************************)
EXTENDS Integers, Sequences, FiniteSets, TLC

VARIABLES i, mv, mvpc, feat, input, rest, slot, record, outcome, trace

mvvars == <<i, mv, mvpc>>
rmcvars == <<feat, input, rest, slot, record, outcome, trace>>
vars == <<i, mv, mvpc, feat, input, rest, slot, record, outcome, trace>>

-----------------------------------------------------------------------------
(* Bounds *)

\* longest input text enumerated for magnetic_variation
MaxLen == 5

\* largest number of wire fields of an enumerated RMC sentence
MaxFields == 14

-----------------------------------------------------------------------------
(* Parser results and the nom combinators used by rmc.rs *)

None == <<>>

Some(v) == <<v>>

Ok(r, v) == [ok |-> TRUE, rest |-> r, val |-> v]

Err(at) == [ok |-> FALSE, rest |-> at, val |-> <<>>]

\* nom::character::complete::char
char(c, in) ==
    IF in # <<>> /\ Head(in) = c THEN Ok(Tail(in), c) ELSE Err(in)

\* nom::character::complete::one_of
one_of(cs, in) ==
    IF in # <<>> /\ Head(in) \in cs THEN Ok(Tail(in), Head(in)) ELSE Err(in)

\* nom::combinator::value: the parser's result with its value replaced
value(v, r) == IF r.ok THEN Ok(r.rest, v) ELSE r

\* nom::branch::alt over two alternatives, both given the same input: the
\* first alternative's success, else the second alternative's result
alt(r1, r2) == IF r1.ok THEN r1 ELSE r2

-----------------------------------------------------------------------------
(* Decimal numbers *)

DigitChars == {"0", "1", "2", "3", "4", "5", "6", "7", "8", "9"}

DigitVal(c) ==
    CASE c = "0" -> 0 [] c = "1" -> 1 [] c = "2" -> 2 [] c = "3" -> 3
      [] c = "4" -> 4 [] c = "5" -> 5 [] c = "6" -> 6 [] c = "7" -> 7
      [] c = "8" -> 8 [] c = "9" -> 9

RECURSIVE DigitRun(_)
\* length of the longest prefix of in made of digits
DigitRun(in) ==
    IF in # <<>> /\ Head(in) \in DigitChars THEN 1 + DigitRun(Tail(in)) ELSE 0

RECURSIVE NatOf(_)
\* the number a digit string denotes
NatOf(ds) ==
    IF ds = <<>> THEN 0
    ELSE 10 * NatOf(SubSeq(ds, 1, Len(ds) - 1)) + DigitVal(ds[Len(ds)])

Drop(in, n) == SubSeq(in, n + 1, Len(in))

Take(in, n) == SubSeq(in, 1, n)

RECURSIVE Norm(_, _)
\* m * 10^e with the trailing zeros of m moved into e; zero is <<0, 0>>
Norm(m, e) ==
    IF m = 0 THEN <<0, 0>>
    ELSE IF m % 10 = 0 THEN Norm(m \div 10, e + 1)
    ELSE <<m, e>>

\* -value on a decimal
Neg(d) == <<0 - d[1], d[2]>>

\* 1 when the text begins with a sign
SignLen(in) == IF in # <<>> /\ Head(in) \in {"+", "-"} THEN 1 ELSE 0

IsNegative(in) == in # <<>> /\ Head(in) = "-"

\* whether a point follows the integer digits of a
HasPoint(a) == Drop(a, DigitRun(a)) # <<>> /\ Head(Drop(a, DigitRun(a))) = "."

\* the number of fraction digits of the mantissa a begins with
FracLen(a) == IF HasPoint(a) THEN DigitRun(Drop(a, DigitRun(a) + 1)) ELSE 0

\* the length of the mantissa a begins with: digits [. digits]
MantissaLen(a) == DigitRun(a) + (IF HasPoint(a) THEN 1 + FracLen(a) ELSE 0)

\* the mantissa's digits read as one number
MantissaVal(a) ==
    NatOf(Take(a, DigitRun(a))
          \o SubSeq(a, DigitRun(a) + 2, DigitRun(a) + 1 + FracLen(a)))

HasExponent(c) == c # <<>> /\ Head(c) \in {"e", "E"}

\* the digits of the exponent c begins with, after its marker and sign
ExponentDigits(c) == Drop(c, 1 + SignLen(Drop(c, 1)))

\* the exponent's value, 0 without an exponent
ExponentVal(c) ==
    IF ~HasExponent(c) THEN 0
    ELSE IF IsNegative(Drop(c, 1))
    THEN 0 - NatOf(Take(ExponentDigits(c), DigitRun(ExponentDigits(c))))
    ELSE NatOf(Take(ExponentDigits(c), DigitRun(ExponentDigits(c))))

\* the text after the exponent c begins with
AfterExponent(c) ==
    IF HasExponent(c) THEN Drop(ExponentDigits(c), DigitRun(ExponentDigits(c)))
    ELSE c

\* f32::parse: [+-] digits [. digits] [(e|E) [+-] digits], at least one
\* mantissa digit; an exponent marker without digits is an error
F32Parse(in) ==
    LET a == Drop(in, SignLen(in))
        c == Drop(a, MantissaLen(a))
        d == Norm(MantissaVal(a), ExponentVal(c) - FracLen(a))
    IN  IF DigitRun(a) + FracLen(a) = 0 THEN Err(in)
        ELSE IF HasExponent(c) /\ DigitRun(ExponentDigits(c)) = 0
        THEN Err(ExponentDigits(c))
        ELSE Ok(AfterExponent(c), IF IsNegative(in) THEN Neg(d) ELSE d)

-----------------------------------------------------------------------------
(* magnetic_variation, rmc.rs lines 75-94 *)

\* a letter set that lets a third letter through
DirLettersAny == {"E", "W", "A"}

\* the letters one_of("EW") accepts
DirLetters == {"E", "W"}

\* the pair's second half: the direction letter after the magnitude v
WithDir(v, d) == IF d.ok THEN Ok(d.rest, <<v, d.val>>) ELSE d

\* the pair's separator, then its second half, after the magnitude m
AfterMagnitude(m, s) ==
    IF ~m.ok THEN m
    ELSE IF ~s.ok THEN s
    ELSE WithDir(m.val, one_of(DirLetters, s.rest))

\* nom::sequence::separated_pair(f32::parse, char(','), one_of("EW"))
separated_pair_f32_dir(in) ==
    AfterMagnitude(F32Parse(in), char(",", F32Parse(in).rest))

\* the closure with the two directions swapped
SignFlipped(val, dir) == IF dir = "E" THEN Some(Neg(val)) ELSE Some(val)

\* the closure mapped over the pair: W negates, anything else does not
SignOf(val, dir) == IF dir = "W" THEN Some(Neg(val)) ELSE Some(val)

\* a first alternative that accepts any input and consumes nothing
EmptyAltNoComma(in) == Ok(in, None)

\* a first alternative that also accepts the end of the input
EmptyAltAtEnd(in) == IF in = <<>> THEN Ok(in, None) ELSE value(None, char(",", in))

\* a first alternative that yields Some(0) in place of None
EmptyAltZero(in) == value(Some(<<0, 0>>), char(",", in))

\* first alternative: value(None, char(','))
EmptyAlt(in) == value(None, char(",", in))

\* Parser::map: the closure applied to a successful pair
MapPair(p) == IF p.ok THEN Ok(p.rest, SignOf(p.val[1], p.val[2])) ELSE p

\* second alternative: separated_pair(...).map(|(value, dir)| ...)
PairAlt(in) == MapPair(separated_pair_f32_dir(in))

\* alt((first, second)).parse(i)
magnetic_variation(in) == alt(EmptyAlt(in), PairAlt(in))

-----------------------------------------------------------------------------
(* Primitive field decoders (crate code outside rmc.rs) *)

\* a field is empty when the input ends or a comma follows at once
AtEmptyField(in) == in = <<>> \/ Head(in) = ","

\* Option<T>::parse: an empty field is None, otherwise T's parser decides
OptField(in, r) ==
    IF AtEmptyField(in) THEN Ok(in, None)
    ELSE IF r.ok THEN Ok(r.rest, Some(r.val))
    ELSE r

\* time::Time: hhmmss[.ss], as <<hours, minutes, seconds, fraction>>
TimeParse(in) ==
    IF DigitRun(in) # 6 THEN Err(in)
    ELSE IF NatOf(Take(in, 2)) > 23 \/ NatOf(SubSeq(in, 3, 4)) > 59
            \/ NatOf(SubSeq(in, 5, 6)) > 59 THEN Err(in)
    ELSE Ok(Drop(in, MantissaLen(in)),
            <<NatOf(Take(in, 2)), NatOf(SubSeq(in, 3, 4)), NatOf(SubSeq(in, 5, 6)),
              Norm(NatOf(SubSeq(in, 8, 7 + FracLen(in))), 0 - FracLen(in))>>)

\* time::Date: ddmmyy, the year read as 2000 + yy, as <<year, month, day>>
DateParse(in) ==
    IF DigitRun(in) # 6 THEN Err(in)
    ELSE IF NatOf(Take(in, 2)) < 1 \/ NatOf(Take(in, 2)) > 31
            \/ NatOf(SubSeq(in, 3, 4)) < 1 \/ NatOf(SubSeq(in, 3, 4)) > 12
    THEN Err(in)
    ELSE Ok(Drop(in, 6),
            <<2000 + NatOf(SubSeq(in, 5, 6)), NatOf(SubSeq(in, 3, 4)),
              NatOf(Take(in, 2))>>)

\* Status: A is valid, V is invalid; an empty field is the default variant
StatusParse(in) ==
    IF AtEmptyField(in) THEN Ok(in, "Invalid")
    ELSE IF Head(in) = "A" THEN Ok(Tail(in), "Valid")
    ELSE IF Head(in) = "V" THEN Ok(Tail(in), "Invalid")
    ELSE Err(in)

\* FaaMode: one character of a closed set
FaaModeParse(in) ==
    IF in = <<>> THEN Err(in)
    ELSE CASE Head(in) = "A" -> Ok(Tail(in), "Autonomous")
           [] Head(in) = "D" -> Ok(Tail(in), "Differential")
           [] Head(in) = "E" -> Ok(Tail(in), "Estimated")
           [] Head(in) = "M" -> Ok(Tail(in), "Manual")
           [] Head(in) = "S" -> Ok(Tail(in), "Simulator")
           [] Head(in) = "N" -> Ok(Tail(in), "DataNotValid")
           [] OTHER -> Err(in)

\* NavStatus: one character of a closed set
NavStatusParse(in) ==
    IF in = <<>> THEN Err(in)
    ELSE CASE Head(in) = "S" -> Ok(Tail(in), "Safe")
           [] Head(in) = "C" -> Ok(Tail(in), "Caution")
           [] Head(in) = "U" -> Ok(Tail(in), "Unsafe")
           [] Head(in) = "V" -> Ok(Tail(in), "NotValid")
           [] OTHER -> Err(in)

RECURSIVE Pow10(_)
Pow10(n) == IF n <= 0 THEN 1 ELSE 10 * Pow10(n - 1)

\* one coordinate magnitude, d degree digits then mm[.mmmm] minutes, as
\* millionths of a degree: degrees + minutes / 60
CoordMagnitude(in, d) ==
    LET mn  == NatOf(SubSeq(in, d + 1, d + 2)
                     \o SubSeq(in, d + 4, d + 3 + FracLen(in)))
        mic == IF FracLen(in) <= 6 THEN (mn * Pow10(6 - FracLen(in))) \div 60
               ELSE (mn \div Pow10(FracLen(in) - 6)) \div 60
    IN  IF DigitRun(in) # d + 2 THEN Err(in)
        ELSE IF NatOf(SubSeq(in, d + 1, d + 2)) > 59 THEN Err(in)
        ELSE Ok(Drop(in, MantissaLen(in)), NatOf(Take(in, d)) * 1000000 + mic)

RECURSIVE SkipField(_)
\* the input from the end of the current field on
SkipField(in) == IF AtEmptyField(in) THEN in ELSE SkipField(Tail(in))

\* the parser's result followed by a comma, its value kept
ThenComma(r) ==
    IF ~r.ok THEN r
    ELSE IF char(",", r.rest).ok THEN Ok(Tail(r.rest), r.val)
    ELSE Err(r.rest)

\* the magnitude v signed by the hemisphere letter h
Signed(v, neg, h) ==
    IF h.ok THEN Ok(h.rest, Some(IF h.val = neg THEN 0 - v ELSE v)) ELSE h

\* the hemisphere field after the magnitude m: skipped whatever it holds
\* when the magnitude is empty, else one of the axis's two letters
Hemisphere(m, pos, neg) ==
    IF ~m.ok THEN m
    ELSE IF m.val = None THEN Ok(SkipField(m.rest), None)
    ELSE Signed(m.val[1], neg, one_of({pos, neg}, m.rest))

\* one axis: magnitude and hemisphere letter, two wire fields
Axis(in, d, pos, neg) ==
    Hemisphere(ThenComma(OptField(in, CoordMagnitude(in, d))), pos, neg)

\* latitude and longitude together: absent when either is
LatLon(latv, lon) ==
    IF ~lon.ok THEN lon
    ELSE IF latv = None \/ lon.val = None THEN Ok(lon.rest, None)
    ELSE Ok(lon.rest, Some(<<latv[1], lon.val[1]>>))

Longitude(lat) ==
    IF ~lat.ok THEN lat ELSE LatLon(lat.val, Axis(lat.rest, 3, "E", "W"))

\* parse::location: latitude and longitude, four wire fields
LocationParse(in) == Longitude(ThenComma(Axis(in, 2, "N", "S")))

-----------------------------------------------------------------------------
(* The RMC record, rmc.rs lines 47-73, and its derived parser *)

Features == [v23 : BOOLEAN, v411 : BOOLEAN]

\* the fields every build has, in declaration order
BaseSlots ==
    <<"fix_time", "status", "location", "speed_over_ground",
      "course_over_ground", "fix_date", "magnetic_variation">>

\* the fields of the struct under the features f, in declaration order
Slots(f) ==
    BaseSlots \o (IF f.v23 THEN <<"faa_mode">> ELSE <<>>)
              \o (IF f.v411 THEN <<"nav_status">> ELSE <<>>)

\* the parser of each field: its type's parser, or the one #[nmea(parser)]
\* names
SlotParser(name, in) ==
    CASE name = "fix_time" -> OptField(in, TimeParse(in))
      [] name = "status" -> StatusParse(in)
      [] name = "location" -> LocationParse(in)
      [] name = "speed_over_ground" -> OptField(in, F32Parse(in))
      [] name = "course_over_ground" -> OptField(in, F32Parse(in))
      [] name = "fix_date" -> OptField(in, DateParse(in))
      [] name = "magnetic_variation" -> magnetic_variation(in)
      [] name = "faa_mode" -> OptField(in, FaaModeParse(in))
      [] name = "nav_status" -> OptField(in, NavStatusParse(in))

\* the comma the derived parser takes before every field but the first
Separator(k, in) == IF k = 1 THEN Ok(in, ",") ELSE char(",", in)

\* the text the k-th field's parser is given, when its separator is there
SlotStart(k, in) == IF Separator(k, in).ok THEN Separator(k, in).rest ELSE in

\* the k-th field decoded from in: its separator, then its parser
DecodeSlot(k, name, in) ==
    IF Separator(k, in).ok THEN SlotParser(name, Separator(k, in).rest)
    ELSE Separator(k, in)

RECURSIVE Commas(_)
Commas(in) ==
    IF in = <<>> THEN 0
    ELSE (IF Head(in) = "," THEN 1 ELSE 0) + Commas(Tail(in))

\* the 1-based wire field of sentence s at which the suffix r of s begins
FieldIndex(s, r) == 1 + Commas(s) - Commas(r)


-----------------------------------------------------------------------------
(* The inputs *)

E0 == <<>>

\* the sentence of tests::test_rmc_parsing
TestSentence ==
    <<"0", "0", "1", "0", "3", "1", ".", "0", "0", ",", "A", ",", "4", "4", "0", "4", ".", "1", "3", "9", "9", "3", ",", "N", ",", "1", "2", "1", "1", "8", ".", "8", "6", "0", "2", "3", ",", "W", ",", "0", ".", "1", "4", "6", ",", ",", "1", "0", "0", "1", "1", "7", ",", ",", ",", "A", ",", "V">>

\* texts a caller can hand to magnetic_variation
MVAlphabet == {",", "3", "0", ".", "E", "W", "A"}

\* the examples 3.00,W and 3.00,E
MVExampleWest == <<"3", ".", "0", "0", ",", "W">>

MVExampleEast == <<"3", ".", "0", "0", ",", "E">>

MVExamples == {MVExampleWest, MVExampleEast}

MVInputs == UNION {[1..n -> MVAlphabet] : n \in 0..MaxLen} \cup MVExamples

\* the texts tried in each group of wire fields: fields 1, 2, 3-9, 10, 11,
\* 12, 13
FieldChoices ==
    << {<<E0>>, <<<<"0", "0", "1", "0", "3", "1", ".", "0", "0">>>>},
       {<<<<"A">>>>, <<<<"V">>>>},
       {<<E0, E0, E0, E0, E0, E0, E0>>,
        <<<<"4", "4", "0", "4", ".", "1", "3", "9", "9", "3">>, <<"N">>, <<"1", "2", "1", "1", "8", ".", "8", "6", "0", "2", "3">>, <<"W">>, <<"0", ".", "1", "4", "6">>, E0, <<"1", "0", "0", "1", "1", "7">>>>,
        <<<<"4", "4", "0", "4", ".", "1", "3", "9", "9", "3">>, <<"S">>, <<"1", "2", "1", "1", "8", ".", "8", "6", "0", "2", "3">>, <<"E">>, <<"0", ".", "1", "4", "6">>, <<"3", ".", "0">>, <<"1", "0", "0", "1", "1", "7">>>>},
       {<<E0>>, <<<<"3", ".", "0", "0">>>>, <<<<"X">>>>},
       {<<E0>>, <<<<"E">>>>, <<<<"W">>>>, <<<<"A">>>>},
       {<<E0>>, <<<<"A">>>>},
       {<<E0>>, <<<<"V">>>>} >>

\* a field beyond the thirteenth
ExtraField == <<"9">>

RECURSIVE FieldLists(_)
\* every list of wire fields built from the first g groups of FieldChoices
FieldLists(g) ==
    IF g = 0 THEN {<<>>}
    ELSE {fs \o c : fs \in FieldLists(g - 1), c \in FieldChoices[g]}

RECURSIVE JoinFields(_)
\* the fields joined by commas
JoinFields(fs) ==
    IF Len(fs) = 0 THEN <<>>
    ELSE IF Len(fs) = 1 THEN fs[1]
    ELSE fs[1] \o <<",">> \o JoinFields(Tail(fs))

RECURSIVE SplitFields(_)
\* the wire fields of a text: the inverse of JoinFields
SplitFields(in) ==
    LET f == Take(in, Len(in) - Len(SkipField(in)))
        r == SkipField(in)
    IN  IF r = <<>> THEN <<f>> ELSE <<f>> \o SplitFields(Tail(r))

\* the first k fields of fs, followed by extra fields when k exceeds them
Truncate(fs, k) ==
    [p \in 1..k |-> IF p <= Len(fs) THEN fs[p] ELSE ExtraField]

\* the sentences RMC::parse is run on
Sentences ==
    {JoinFields(Truncate(fs, k)) :
        fs \in FieldLists(Len(FieldChoices)), k \in 1..MaxFields}

-----------------------------------------------------------------------------
(* RMC::parse as a state machine: one action per field of the struct *)

NoResult == Err(<<>>)

Init ==
    /\ feat \in Features
    /\ input \in Sentences
    /\ rest = input
    /\ slot = 1
    /\ record = <<>>
    /\ outcome = "running"
    /\ trace = <<>>
    /\ i = <<>>
    /\ mv = NoResult
    /\ mvpc = "idle"

\* what the derived parser does with the result r of the field called name,
\* decoded from the text at: the next field, the finished record, or the
\* error (which carries no record)
Advance(name, at, r) ==
    /\ rest' = r.rest
    /\ trace' = Append(trace,
           [name |-> name, ok |-> r.ok, sep |-> Separator(slot, rest).ok,
            from |-> FieldIndex(input, at), to |-> FieldIndex(input, r.rest),
            start |-> Len(input) - Len(at), stop |-> Len(input) - Len(r.rest)])
    /\ IF r.ok
       THEN /\ record' = record @@ (name :> r.val)
            /\ slot' = slot + 1
            /\ outcome' = IF slot = Len(Slots(feat)) THEN "ok" ELSE "running"
       ELSE /\ record' = <<>>
            /\ slot' = slot
            /\ outcome' = "err"

\* whether the field called name is the next one to decode
IsNext(name) ==
    /\ outcome = "running"
    /\ slot <= Len(Slots(feat))
    /\ Slots(feat)[slot] = name

\* the derived parser's step for the field called name
ParseSlot(name) ==
    /\ Advance(name, SlotStart(slot, rest), DecodeSlot(slot, name, rest))
    /\ UNCHANGED <<feat, input, mvvars>>

ParseFixTime ==
    /\ IsNext("fix_time")
    /\ ParseSlot("fix_time")

ParseStatus ==
    /\ IsNext("status")
    /\ ParseSlot("status")

ParseLocation ==
    /\ IsNext("location")
    /\ ParseSlot("location")

ParseSpeedOverGround ==
    /\ IsNext("speed_over_ground")
    /\ ParseSlot("speed_over_ground")

ParseCourseOverGround ==
    /\ IsNext("course_over_ground")
    /\ ParseSlot("course_over_ground")

ParseFixDate ==
    /\ IsNext("fix_date")
    /\ ParseSlot("fix_date")

ParseMagneticVariation ==
    /\ IsNext("magnetic_variation")
    /\ ParseSlot("magnetic_variation")

ParseFaaMode ==
    /\ IsNext("faa_mode")
    /\ ParseSlot("faa_mode")

ParseNavStatus ==
    /\ IsNext("nav_status")
    /\ ParseSlot("nav_status")

Next ==
    \/ ParseFixTime
    \/ ParseStatus
    \/ ParseLocation
    \/ ParseSpeedOverGround
    \/ ParseCourseOverGround
    \/ ParseFixDate
    \/ ParseMagneticVariation
    \/ ParseFaaMode
    \/ ParseNavStatus

Spec == Init /\ [][Next]_vars

RECURSIVE ParseFrom(_, _, _, _)
RECURSIVE ParseNext(_, _, _, _)
\* RMC::parse as a function: the fields from the k-th on, decoded from in
ParseFrom(f, k, in, rec) ==
    IF k > Len(Slots(f)) THEN Ok(in, rec)
    ELSE ParseNext(f, k, rec, DecodeSlot(k, Slots(f)[k], in))

ParseNext(f, k, rec, r) ==
    IF r.ok THEN ParseFrom(f, k + 1, r.rest, rec @@ (Slots(f)[k] :> r.val))
    ELSE r

RMCParse(f, in) == ParseFrom(f, 1, in, <<>>)

-----------------------------------------------------------------------------
(* magnetic_variation called on its own *)

InitMV ==
    /\ i \in MVInputs
    /\ mv = NoResult
    /\ mvpc = "call"
    /\ feat = [v23 |-> FALSE, v411 |-> FALSE]
    /\ input = <<>>
    /\ rest = <<>>
    /\ slot = 1
    /\ record = <<>>
    /\ outcome = "idle"
    /\ trace = <<>>

CallMagneticVariation ==
    /\ mvpc = "call"
    /\ mv' = magnetic_variation(i)
    /\ mvpc' = "done"
    /\ UNCHANGED <<i, rmcvars>>

NextMV == CallMagneticVariation

SpecMV == InitMV /\ [][NextMV]_vars


-----------------------------------------------------------------------------
(* The wire layout of the doc comment, rmc.rs lines 26-44 *)

\* the number of wire fields a sentence has
NumFields(in) == Commas(in) + 1

\* the wire fields one field of the struct is made of
WireFieldsOf(name) ==
    CASE name = "location" -> 4
      [] name = "magnetic_variation" -> 2
      [] OTHER -> 1

\* the wire field at which each field of the struct begins
FirstWireField(name) ==
    CASE name = "fix_time" -> 1
      [] name = "status" -> 2
      [] name = "location" -> 3
      [] name = "speed_over_ground" -> 7
      [] name = "course_over_ground" -> 8
      [] name = "fix_date" -> 9
      [] name = "magnetic_variation" -> 10
      [] name = "faa_mode" -> 12
      [] name = "nav_status" -> 13

RECURSIVE SumWireFields(_)
SumWireFields(names) ==
    IF names = <<>> THEN 0
    ELSE WireFieldsOf(Head(names)) + SumWireFields(Tail(names))

\* the wire fields the build with features f requires: 11, and one more for
\* each trailing field of the struct
Required(f) == SumWireFields(Slots(f))

\* the sentence made of the first n wire fields of in
FirstFields(in, n) == JoinFields(Take(SplitFields(in), n))

\* the sentence in with its p-th wire field replaced by the text t
WithField(in, p, t) == JoinFields([SplitFields(in) EXCEPT ![p] = t])

\* the text magnetic_variation consumed of its input
Consumed == Take(i, Len(i) - Len(mv.rest))

\* the magnitude field of magnetic_variation's input, and the text after
\* the comma that ends it
MagnitudeField == SplitFields(i)[1]

AfterMagnitudeField == Drop(i, Len(MagnitudeField) + 1)

-----------------------------------------------------------------------------
(* Claims about magnetic_variation, under SpecMV *)

\* C1: for every input <magnitude>,<dir> whose magnitude field is a
\* well-formed number m, magnetic_variation yields Some(-m) when dir is W
\* and Some(m) when dir is E.
C1_SignCorrect ==
    (/\ mvpc = "done"
     /\ F32Parse(MagnitudeField).ok
     /\ F32Parse(MagnitudeField).rest = <<>>
     /\ AfterMagnitudeField # <<>>
     /\ Head(AfterMagnitudeField) \in {"E", "W"})
    => /\ mv.ok
       /\ mv.val = IF Head(AfterMagnitudeField) = "W"
                   THEN Some(Neg(F32Parse(MagnitudeField).val))
                   ELSE Some(F32Parse(MagnitudeField).val)

\* 3.00,W has been decoded to -3
C1_Witness ==
    /\ mvpc = "done"
    /\ i = MVExampleWest
    /\ mv = Ok(<<>>, Some(<<0 - 3, 0>>))

\* C3: every successful call of magnetic_variation on an input whose
\* direction field is empty, E or W consumes exactly two wire fields: one
\* comma, and a remainder that begins right after the direction field,
\* that is at the end of wire field 2.
C3_ConsumesTwoFields ==
    (/\ mvpc = "done"
     /\ mv.ok
     /\ SplitFields(i)[2] \in {<<>>, <<"E">>, <<"W">>})
    => /\ Commas(Consumed) = 1
       /\ FieldIndex(i, mv.rest) = 2
       /\ AtEmptyField(mv.rest)

\* C4: magnetic_variation returns an error when a non-empty magnitude field
\* is not followed by a comma and one of the letters E and W.
C4_BadDirectionIsError ==
    (/\ mvpc = "done"
     /\ MagnitudeField # <<>>
     /\ \/ AfterMagnitudeField = <<>>
        \/ Head(AfterMagnitudeField) \notin {"E", "W"})
    => ~mv.ok

\* 3.0,A has been rejected
C4_Witness ==
    /\ mvpc = "done"
    /\ i = <<"3", ".", "0", ",", "A">>
    /\ ~mv.ok

\* C10: no input is accepted by both alternatives, and trying the
\* alternatives in the opposite order gives the same success, value and
\* remainder.
C10_AlternativesExclusive ==
    mvpc = "done"
    => /\ ~(EmptyAlt(i).ok /\ PairAlt(i).ok)
       /\ alt(PairAlt(i), EmptyAlt(i)).ok = mv.ok
       /\ mv.ok => alt(PairAlt(i), EmptyAlt(i)) = mv

\* 3.00,E has been accepted by the second alternative after the first failed
C10_Witness ==
    /\ mvpc = "done"
    /\ i = MVExampleEast
    /\ ~EmptyAlt(i).ok
    /\ mv.ok
    /\ mv = PairAlt(i)

-----------------------------------------------------------------------------
(* Claims about RMC::parse, under Spec *)

\* C2: when the magnitude field (wire field 10) is empty, a sentence that
\* decodes with an empty direction field decodes whatever the direction
\* field holds, and magnetic_variation is absent.
C2_EmptyMagnitudeAbsent ==
    (/\ outcome # "running"
     /\ NumFields(input) >= Required(feat)
     /\ SplitFields(input)[10] = <<>>
     /\ RMCParse(feat, WithField(input, 11, <<>>)).ok)
    => /\ outcome = "ok"
       /\ record["magnetic_variation"] = None

\* C5: under every combination of features the sentence of test_rmc_parsing
\* decodes, with course_over_ground and magnetic_variation absent, faa_mode
\* A where the record has it and nav_status V where the record has it.
C5_TestSentenceDecodes ==
    (outcome # "running" /\ input = TestSentence)
    => /\ outcome = "ok"
       /\ record["course_over_ground"] = None
       /\ record["magnetic_variation"] = None
       /\ feat.v23 => record["faa_mode"] = Some("Autonomous")
       /\ feat.v411 => record["nav_status"] = Some("NotValid")

\* C6: a sentence with fewer wire fields than the build requires never
\* decodes: the parse ends in an error, which carries no record.
C6_TruncatedIsError ==
    (outcome # "running" /\ NumFields(input) < Required(feat))
    => /\ outcome = "err"
       /\ record = <<>>

\* a sentence cut after the magnitude field has been rejected by
\* magnetic_variation
C6_Witness ==
    /\ outcome = "err"
    /\ NumFields(input) = 10
    /\ trace[Len(trace)].name = "magnetic_variation"
    /\ trace[Len(trace)].sep

\* C7: wire fields beyond the last field of the struct are not an error:
\* when the sentence cut to the required fields decodes, the longer one
\* decodes to the same record and its remainder is exactly the extra fields.
C7_TrailingFieldsTolerated ==
    (/\ outcome # "running"
     /\ NumFields(input) > Required(feat)
     /\ RMCParse(feat, FirstFields(input, Required(feat))).ok)
    => /\ outcome = "ok"
       /\ record = RMCParse(feat, FirstFields(input, Required(feat))).val
       /\ rest = Drop(input, Len(FirstFields(input, Required(feat))))

\* every required wire field but status is empty
OnlyStatusGiven ==
    /\ NumFields(input) >= Required(feat)
    /\ SplitFields(input)[2] \in {<<"A">>, <<"V">>}
    /\ \A p \in 1..Required(feat) : p # 2 => SplitFields(input)[p] = <<>>

\* C8: a sentence in which only status is given decodes, and every optional
\* field of the record is absent.
C8_AllEmptyAllAbsent ==
    (outcome # "running" /\ OnlyStatusGiven)
    => /\ outcome = "ok"
       /\ \A k \in 1..Len(Slots(feat)) :
              Slots(feat)[k] # "status" => record[Slots(feat)[k]] = None

\* such a sentence has been decoded with both trailing fields in the record
C8_Witness ==
    /\ outcome = "ok"
    /\ OnlyStatusGiven
    /\ feat.v23
    /\ feat.v411
    /\ record["magnetic_variation"] = None
    /\ record["nav_status"] = None

\* C9: the fields are decoded left to right, the cursor never moves back, no
\* text is consumed by two fields, and under every combination of features
\* each field's parser is run at its fixed wire position (fix_time 1,
\* status 2, location 3, speed 7, course 8, fix_date 9, magnetic_variation
\* 10, faa_mode 12, nav_status 13).
C9_FixedWirePositions ==
    \A k \in 1..Len(trace) :
        /\ trace[k].start <= trace[k].stop
        /\ k > 1 => trace[k - 1].stop <= trace[k].start
        /\ trace[k].sep => trace[k].from = FirstWireField(trace[k].name)

=============================================================================
